---- MODULE Spec2Model ----
(***************************************************************************)
(* Model of the PySpee transcription microservice (mist-ic/MystWell):      *)
(*   utils/config.py          environment loading at import time           *)
(*   utils/security.py        validate_api_key, the X-API-Key dependency   *)
(*   services/transcription.py  transcribe_audio_v2 and the speech client  *)
(*   main.py                  GET /health, POST /transcribe                *)
(* Strings whose characters matter (API keys, transcripts) are sequences   *)
(* of character codes; Python's None is the empty tuple Nothing and a      *)
(* present value v is Some(v).                                             *)
(***************************************************************************)
EXTENDS Integers, Sequences, FiniteSets, TLC

VARIABLES
    phase,                          \* "loading", "serving" or "crashed"
    env,                            \* the process environment read by config.py
    GOOGLE_SPEECH_RECOGNIZER_NAME,  \* config.py module global
    TRANSCRIPTION_API_KEY,          \* config.py module global
    speech_client,                  \* transcription.py module global
    req,                            \* req[r]: the HTTP request as sent
    pc,                             \* pc[r]: where request r stands
    resp,                           \* resp[r]: the HTTP response (pending until pc = "responded")
    runs,                           \* runs[r]: times process_transcription was entered
    calls,                          \* calls[r]: times speech_client.recognize was called
    reply,                          \* reply[r]: what recognize returned or raised
    audio_content,                  \* audio_content[r]: the handler's local, Nothing until read() returns
    fault,                          \* fault[r]: the exception that left the handler's try block
    closes,                         \* closes[r]: times audio_file.close() was awaited
    warned,                         \* warned[r]: the content-type warning was logged
    read_out,                       \* read_out[r]: what audio_file.read() did, once awaited
    build_out,                      \* build_out[r]: what the request construction did, once run
    sent,                           \* sent[r]: the RecognizeRequests passed to recognize
    loop                            \* the request whose synchronous call holds the event loop

vars == <<phase, env, GOOGLE_SPEECH_RECOGNIZER_NAME, TRANSCRIPTION_API_KEY,
          speech_client, req, pc, resp, runs, calls, reply, audio_content, fault,
          closes, warned, read_out, build_out, sent, loop>>

\* What the environment did for each request, and what was sent to the provider.
consulted == <<read_out, build_out, sent>>

----------------------------------------------------------------------------
(* Values *)

Nothing == << >>
Some(v) == << v >>
IsNone(o) == Len(o) = 0
Get(o) == o[1]

\* Character codes used below: 97 'a', 98 'b', 32 ' ', 233 e-acute (latin-1 0xE9).

Requests == {1, 2}

\* Bounds of the provider responses drawn in SpecTranscript.
MaxResults == 2
MaxAlts == 2

SeqsUpTo(S, n) == UNION {[1..k -> S] : k \in 0..n}

----------------------------------------------------------------------------
(* Exceptions: a record of the class and the message (str(e), e.message).   *)
(* An HTTPException also carries status_code and detail; detail is a pair   *)
(* <<fixed text, interpolated message>>.                                    *)

Exc(cls, msg) == [cls |-> cls, message |-> msg, status_code |-> 0, detail |-> <<"", "">>]
HTTPException(code, text, arg) ==
    [cls |-> "HTTPException", message |-> "", status_code |-> code, detail |-> <<text, arg>>]

\* The base class of each exception class (google.api_core.exceptions, builtins, fastapi).
Base(cls) ==
    CASE cls = "NotFound"           -> "GoogleAPICallError"
      [] cls = "ServiceUnavailable" -> "GoogleAPICallError"
      [] cls = "GoogleAPICallError" -> "Exception"
      [] cls = "HTTPException"      -> "Exception"
      [] cls = "TypeError"          -> "Exception"
      [] cls = "AttributeError"     -> "Exception"
      [] cls = "OSError"            -> "Exception"
      [] cls = "ConnectionError"    -> "OSError"
      [] cls = "ValueError"         -> "Exception"
      [] OTHER                      -> "object"

RECURSIVE IsInstance(_, _)
IsInstance(cls, target) ==
    IF cls = target THEN TRUE
    ELSE IF cls = "object" THEN FALSE
    ELSE IsInstance(Base(cls), target)

\* What a call yields: a returned value or a raised exception.
Return(v) == [raised |-> FALSE, value |-> v, exc |-> Exc("", "")]
Raise(e)  == [raised |-> TRUE, value |-> Nothing, exc |-> e]

----------------------------------------------------------------------------
(* utils/config.py *)

\* os.getenv(var_name, default): the variable's value, else the default.
getenv(e, var_name, default) == IF IsNone(e[var_name]) THEN default ELSE e[var_name]

\* A loader that falls back to the empty string instead of raising.
get_env_variable_lenient(e, var_name, default) ==
    LET value == getenv(e, var_name, default)
    IN  IF IsNone(value) THEN Return(<< >>) ELSE Return(Get(value))

get_env_variable(e, var_name, default) ==
    LET value == getenv(e, var_name, default)
    IN  IF IsNone(value)
        THEN Raise(Exc("EnvironmentError", var_name))
        ELSE Return(Get(value))

----------------------------------------------------------------------------
(* utils/security.py *)

IsAscii(s) == \A i \in 1..Len(s) : s[i] < 128

\* The accumulated difference of two equal-length strings, every position visited.
RECURSIVE DiffBits(_, _, _)
DiffBits(a, b, i) ==
    IF i > Len(a) THEN 0
    ELSE (IF a[i] = b[i] THEN 0 ELSE 1) + DiffBits(a, b, i + 1)

\* secrets.compare_digest(a, b) on str arguments: TypeError unless both are ASCII.
compare_digest(a, b) ==
    IF ~IsAscii(a) \/ ~IsAscii(b)
    THEN Raise(Exc("TypeError", "comparing strings with non-ASCII characters is not supported"))
    ELSE IF Len(a) # Len(b) THEN Return(FALSE)
    ELSE Return(DiffBits(a, b, 1) = 0)

\* `not api_key_header`: None or the empty string.
HeaderFalsy(api_key_header) == IsNone(api_key_header) \/ Len(Get(api_key_header)) = 0

\* A validator that lets a request without the header through.
validate_api_key_header_optional(api_key_header, key) ==
    IF IsNone(api_key_header) THEN Return(TRUE)
    ELSE IF Len(Get(api_key_header)) = 0
    THEN Raise(HTTPException(401, "Missing API Key in X-API-Key header", ""))
    ELSE LET c == compare_digest(Get(api_key_header), key)
         IN  IF c.raised THEN Raise(c.exc)
             ELSE IF ~c.value THEN Raise(HTTPException(401, "Invalid API Key", ""))
             ELSE Return(TRUE)

validate_api_key(api_key_header, key) ==
    IF HeaderFalsy(api_key_header)
    THEN Raise(HTTPException(401, "Missing API Key in X-API-Key header", ""))
    ELSE LET c == compare_digest(Get(api_key_header), key)
         IN  IF c.raised THEN Raise(c.exc)
             ELSE IF ~c.value THEN Raise(HTTPException(401, "Invalid API Key", ""))
             ELSE Return(TRUE)

----------------------------------------------------------------------------
(* services/transcription.py *)

\* str.strip(): leading and trailing whitespace removed.
IsSpace(c) == c \in {9, 10, 11, 12, 13, 32}

RECURSIVE LStrip(_)
LStrip(s) == IF Len(s) > 0 /\ IsSpace(Head(s)) THEN LStrip(Tail(s)) ELSE s

RECURSIVE RStrip(_)
RStrip(s) ==
    IF Len(s) > 0 /\ IsSpace(s[Len(s)]) THEN RStrip(SubSeq(s, 1, Len(s) - 1)) ELSE s

Strip(s) == RStrip(LStrip(s))

\* sep.join(parts)
RECURSIVE Join(_, _)
Join(sep, parts) ==
    IF Len(parts) = 0 THEN << >>
    ELSE IF Len(parts) = 1 THEN parts[1]
    ELSE parts[1] \o sep \o Join(sep, Tail(parts))

\* The results taken only up to the first one without alternatives.
FirstAlternatives_until_empty(results) ==
    LET n == CHOOSE k \in 0..Len(results) :
                 /\ \A i \in 1..k : Len(results[i]) > 0
                 /\ k = Len(results) \/ Len(results[k + 1]) = 0
    IN  [i \in 1..n |-> results[i][1]]

\* result.alternatives[0].transcript for result in response.results if result.alternatives
\* (a result is the sequence of its alternatives' transcripts)
FirstAlternatives(results) ==
    LET kept == SelectSeq(results, LAMBDA result : Len(result) > 0)
    IN  [i \in 1..Len(kept) |-> kept[i][1]]

\* The join without the final strip().
CombineResults_unstripped(results) == Join(<<32>>, FirstAlternatives(results))

CombineResults(results) == Strip(Join(<<32>>, FirstAlternatives(results)))

\* The tail of transcribe_audio_v2, after recognize returned `response`
\* (Nothing for a falsy response, else Some(results)).
ProcessResponse(response) ==
    IF IsNone(response) \/ Len(Get(response)) = 0 THEN << >>
    ELSE LET transcript == CombineResults(Get(response))
         IN  IF Len(transcript) = 0 THEN << >> ELSE transcript

\* The except clauses with GoogleAPICallError tried before its subclass NotFound.
ClassifyCallError_base_first(e) ==
    IF IsInstance(e.cls, "GoogleAPICallError")
    THEN HTTPException(500, "Transcription failed due to Google API error: ", e.message)
    ELSE IF IsInstance(e.cls, "NotFound")
    THEN HTTPException(500, "Transcription recognizer configuration error: ", e.message)
    ELSE HTTPException(500, "An unexpected error occurred during transcription.", "")

\* The except clauses around speech_client.recognize, tried in source order.
ClassifyCallError(e) ==
    IF IsInstance(e.cls, "NotFound")
    THEN HTTPException(500, "Transcription recognizer configuration error: ", e.message)
    ELSE IF IsInstance(e.cls, "GoogleAPICallError")
    THEN HTTPException(500, "Transcription failed due to Google API error: ", e.message)
    ELSE HTTPException(500, "An unexpected error occurred during transcription.", "")

\* transcribe_audio_v2 without the guard on speech_client.
ClientGuard_absent(client) == Return(TRUE)

\* `if not speech_client`: the guard at the head of transcribe_audio_v2.
ClientGuard(client) ==
    IF IsNone(client)
    THEN Raise(HTTPException(500,
            "Transcription service is not properly configured (Speech Client).", ""))
    ELSE Return(TRUE)

\* The request construction: ExplicitDecodingConfig inside try/except AttributeError,
\* RecognitionConfig and RecognizeRequest outside any try. `build` is what the
\* provider library does there: "ok", or an exception it raises.
BuildRequest(build) ==
    IF ~build.raised THEN Return(TRUE)
    ELSE IF build.at = "encoding" /\ IsInstance(build.exc.cls, "AttributeError")
    THEN Raise(HTTPException(500,
            "Transcription service configuration error (Audio Encoding).", ""))
    ELSE Raise(build.exc)

\* speech_v2.RecognizeRequest(recognizer=..., config=config, content=audio_content)
RecognizeRequest(recognizer, content) ==
    [recognizer |-> recognizer,
     config |-> [encoding |-> "M4A_AAC", language_codes |-> <<"en-US">>, model |-> "long"],
     content |-> content]

\* The request built before the client is looked at.
TranscribeHead_build_first(client, build) ==
    LET b == BuildRequest(build)
    IN  IF b.raised THEN b ELSE ClientGuard(client)

\* transcribe_audio_v2 up to the recognize call: Return(TRUE) when the call is issued.
TranscribeHead(client, build) ==
    LET g == ClientGuard(client)
    IN  IF g.raised THEN g ELSE BuildRequest(build)

\* A tail that treats an empty transcript as a failure.
TranscribeTail_empty_is_error(out) ==
    IF out.raised THEN Raise(ClassifyCallError(out.exc))
    ELSE IF Len(ProcessResponse(out.value)) = 0
    THEN Raise(HTTPException(500, "Transcription returned no results.", ""))
    ELSE Return(ProcessResponse(out.value))

\* transcribe_audio_v2 from the return of recognize (`out`) to its own return.
TranscribeTail(out) ==
    IF out.raised THEN Raise(ClassifyCallError(out.exc))
    ELSE Return(ProcessResponse(out.value))

----------------------------------------------------------------------------
(* main.py *)

Response(code, kind, detail, transcript) ==
    [status |-> code, kind |-> kind, detail |-> detail, transcript |-> transcript]

NoResponse == Response(0, "", <<"", "">>, << >>)

\* health_check
health_check == Response(200, "health", <<"ok", "">>, << >>)

\* FastAPI's rendering of an HTTPException raised by a dependency or an endpoint.
HttpError(e) == Response(e.status_code, "detail", e.detail, << >>)

\* An exception no handler catches: the server's plain 500.
ServerError == Response(500, "text", <<"Internal Server Error", "">>, << >>)

\* No route declares the API key dependency.
RouteDependencies_none(path) == {}

\* The API key dependency declared for the whole application.
RouteDependencies_global(path) == {"validate_api_key"}

\* dependencies=[...] of each route.
RouteDependencies(path) == IF path = "/transcribe" THEN {"validate_api_key"} ELSE {}

\* audio_file.content_type and not audio_file.content_type.startswith("audio/")
\* (a content type is the pair <<type, subtype>> of "type/subtype")
UnexpectedContentType(content_type) ==
    ~IsNone(content_type) /\ Get(content_type)[1] # "audio"

\* The commented-out rejection enabled.
ContentTypeCheck_strict(content_type) ==
    IF UnexpectedContentType(content_type)
    THEN Raise(HTTPException(415, "Unsupported file type. Expected audio.", ""))
    ELSE Return(TRUE)

\* The content type check at the head of process_transcription: a warning is logged,
\* the rejection is commented out, so the check never raises.
ContentTypeCheck(content_type) == Return(TRUE)

\* No check of the upload's length.
EmptyUpload_unchecked(content) == FALSE

\* `if not audio_content`
EmptyUpload(content) == Len(content) = 0

\* The except clauses of process_transcription, tried in source order, applied to
\* what the try block raised.
HandlerExcept(e) ==
    IF IsInstance(e.cls, "HTTPException") THEN e
    ELSE HTTPException(500, "An unexpected error occurred: ", e.message)

\* The response process_transcription produces from the outcome of its try block.
HandlerResponse(out) ==
    IF out.raised THEN HttpError(HandlerExcept(out.exc))
    ELSE Response(200, "transcript", <<"", "">>, out.value)

\* A handler that starts over when its try block ended in a 500.
AfterTry_retry_on_500(r) == IF r.status = 500 THEN "reading" ELSE "closing"

\* close() as the last statement of the try block instead of a finally clause.
AfterTry_close_on_success(r) == IF r.status = 200 THEN "closing" ELSE "responded"

\* Where the handler goes when its try block is left with response `r`:
\* the finally clause awaits audio_file.close() on every path.
AfterTry(r) == "closing"

----------------------------------------------------------------------------
(* Inputs *)

RecognizerName == "projects/p/locations/global/recognizers/r"

\* The environments the process may be started in.
Envs ==
    [GOOGLE_SPEECH_RECOGNIZER_NAME : {Nothing, Some(RecognizerName)},
     TRANSCRIPTION_API_KEY : {Nothing, Some(<<97, 98>>)}]

\* X-API-Key as sent: absent, "", "a", "ab", "aa", "bb", "aba", e-acute, "a" e-acute.
Headers ==
    {Nothing, Some(<< >>), Some(<<97>>), Some(<<97, 98>>), Some(<<97, 97>>),
     Some(<<98, 98>>), Some(<<97, 98, 97>>), Some(<<233>>), Some(<<97, 233>>)}

\* The audio_file form field: absent, zero bytes, one byte, two bytes.
Uploads == {Nothing, Some(<< >>), Some(<<0>>), Some(<<0, 1>>)}

ContentTypes == {Nothing, Some(<<"audio", "mp4">>), Some(<<"text", "plain">>)}

HttpRequests ==
    [path : {"/transcribe"}, header : Headers, audio : Uploads, content_type : ContentTypes]
    \cup [path : {"/health"}, header : Headers, audio : {Nothing}, content_type : {Nothing}]

NoRequest == [path |-> "", header |-> Nothing, audio |-> Nothing, content_type |-> Nothing]

ErrorTexts == {"e1", "e2"}

NoExc == Exc("", "")
NoReply == Raise(NoExc)

\* What `await audio_file.read()` may do with upload `content`.
ReadOutcomes(content) == {Return(content)} \cup {Raise(Exc("OSError", m)) : m \in ErrorTexts}

\* What the provider library may do while the request objects are constructed.
BuildOutcomes ==
    {[raised |-> FALSE, at |-> "", exc |-> NoExc],
     [raised |-> TRUE, at |-> "encoding", exc |-> Exc("AttributeError", "M4A_AAC")]}
    \cup {[raised |-> TRUE, at |-> "config", exc |-> Exc("ValueError", m)] : m \in ErrorTexts}

CallErrors ==
    {Exc(c, m) : c \in {"NotFound", "ServiceUnavailable", "ConnectionError"}, m \in ErrorTexts}

\* Transcript texts of the alternatives in BoundedResponses: "", "a", " b".
Texts == {<< >>, <<97>>, <<32, 98>>}

\* Responses of recognize drawn while the whole server is explored.
SampleResponses ==
    {Nothing,                                                  \* a falsy response
     Some(<< >>),                                              \* no results
     Some(<< << >> >>),                                        \* [no alternatives]
     Some(<< << <<32>> >> >>),                                 \* [" "]
     Some(<< << <<32>> >>, << << >> >> >>),                    \* [" "], [""]
     Some(<< << <<97>>, <<98>> >>, << <<32, 98, 32>> >> >>),   \* ["a", "b"], [" b "]
     Some(<< << <<32, 98, 32>> >>, << >>, << <<97, 32>> >> >>)} \* [" b "], [], ["a "]

SampleOutcomes == {Raise(e) : e \in CallErrors} \cup {Return(v) : v \in SampleResponses}

\* Every response within the bounds: up to MaxResults results of up to MaxAlts alternatives.
BoundedResponses == {Some(rs) : rs \in SeqsUpTo(SeqsUpTo(Texts, MaxAlts), MaxResults)}

BoundedOutcomes == {Return(v) : v \in BoundedResponses}

----------------------------------------------------------------------------
(* The state machine *)

Init ==
    /\ phase = "loading"
    /\ env \in Envs
    /\ GOOGLE_SPEECH_RECOGNIZER_NAME = Nothing
    /\ TRANSCRIPTION_API_KEY = Nothing
    /\ speech_client = Nothing
    /\ req = [r \in Requests |-> NoRequest]
    /\ pc = [r \in Requests |-> "new"]
    /\ resp = [r \in Requests |-> NoResponse]
    /\ runs = [r \in Requests |-> 0]
    /\ calls = [r \in Requests |-> 0]
    /\ reply = [r \in Requests |-> NoReply]
    /\ audio_content = [r \in Requests |-> Nothing]
    /\ fault = [r \in Requests |-> NoExc]
    /\ closes = [r \in Requests |-> 0]
    /\ warned = [r \in Requests |-> FALSE]
    /\ read_out = [r \in Requests |-> Nothing]
    /\ build_out = [r \in Requests |-> Nothing]
    /\ sent = [r \in Requests |-> << >>]
    /\ loop = 0

\* Importing main: config.py resolves the environment, transcription.py builds the
\* client (None when the constructor raises). `made` is whether the constructor succeeds.
LoadModules ==
    /\ phase = "loading"
    /\ LET name == get_env_variable(env, "GOOGLE_SPEECH_RECOGNIZER_NAME", Nothing)
           key  == get_env_variable(env, "TRANSCRIPTION_API_KEY", Nothing)
       IN  IF name.raised
           THEN /\ phase' = "crashed"
                /\ UNCHANGED <<GOOGLE_SPEECH_RECOGNIZER_NAME, TRANSCRIPTION_API_KEY, speech_client>>
           ELSE IF key.raised
           THEN /\ phase' = "crashed"
                /\ GOOGLE_SPEECH_RECOGNIZER_NAME' = Some(name.value)
                /\ UNCHANGED <<TRANSCRIPTION_API_KEY, speech_client>>
           ELSE /\ phase' = "serving"
                /\ GOOGLE_SPEECH_RECOGNIZER_NAME' = Some(name.value)
                /\ TRANSCRIPTION_API_KEY' = Some(key.value)
                /\ \E made \in BOOLEAN :
                      speech_client' = IF made THEN Some("SpeechClient") ELSE Nothing
    /\ UNCHANGED <<env, req, audio_content, pc, resp, runs, calls, reply, fault, closes, warned, consulted, loop>>

\* A client sends request r to the listening server.
Receive(r) ==
    /\ phase = "serving"
    /\ pc[r] = "new"
    /\ \E q \in HttpRequests : req' = [req EXCEPT ![r] = q]
    /\ pc' = [pc EXCEPT ![r] = "received"]
    /\ UNCHANGED <<phase, env, GOOGLE_SPEECH_RECOGNIZER_NAME, TRANSCRIPTION_API_KEY,
                   speech_client, resp, runs, calls, reply, audio_content, fault, closes,
                   warned, consulted, loop>>

\* The route's dependencies are solved before the endpoint function is called.
SolveDependencies(r) ==
    /\ loop = 0
    /\ pc[r] = "received"
    /\ IF "validate_api_key" \in RouteDependencies(req[r].path)
       THEN LET v == validate_api_key(req[r].header, Get(TRANSCRIPTION_API_KEY))
            IN  IF ~v.raised
                THEN /\ pc' = [pc EXCEPT ![r] = "authenticated"]
                     /\ UNCHANGED resp
                ELSE /\ pc' = [pc EXCEPT ![r] = "responded"]
                     /\ resp' = [resp EXCEPT ![r] =
                            IF IsInstance(v.exc.cls, "HTTPException")
                            THEN HttpError(v.exc) ELSE ServerError]
       ELSE /\ pc' = [pc EXCEPT ![r] = "authenticated"]
            /\ UNCHANGED resp
    /\ UNCHANGED <<phase, env, GOOGLE_SPEECH_RECOGNIZER_NAME, TRANSCRIPTION_API_KEY,
                   speech_client, req, audio_content, runs, calls, reply, fault, closes, warned, consulted, loop>>

\* GET /health: health_check runs and returns.
Health(r) ==
    /\ loop = 0
    /\ pc[r] = "authenticated"
    /\ req[r].path = "/health"
    /\ pc' = [pc EXCEPT ![r] = "responded"]
    /\ resp' = [resp EXCEPT ![r] = health_check]
    /\ UNCHANGED <<phase, env, GOOGLE_SPEECH_RECOGNIZER_NAME, TRANSCRIPTION_API_KEY,
                   speech_client, req, audio_content, runs, calls, reply, fault, closes, warned, consulted, loop>>

\* POST /transcribe without the required audio_file field: File(...) is rejected
\* by the framework and process_transcription is not called.
RejectBody(r) ==
    /\ loop = 0
    /\ pc[r] = "authenticated"
    /\ req[r].path = "/transcribe"
    /\ IsNone(req[r].audio)
    /\ pc' = [pc EXCEPT ![r] = "responded"]
    /\ resp' = [resp EXCEPT ![r] = Response(422, "detail", <<"Field required", "audio_file">>, << >>)]
    /\ UNCHANGED <<phase, env, GOOGLE_SPEECH_RECOGNIZER_NAME, TRANSCRIPTION_API_KEY,
                   speech_client, req, audio_content, runs, calls, reply, fault, closes, warned, consulted, loop>>

\* process_transcription from its entry to `await audio_file.read()`.
EnterHandler(r) ==
    /\ loop = 0
    /\ pc[r] = "authenticated"
    /\ req[r].path = "/transcribe"
    /\ ~IsNone(req[r].audio)
    /\ runs' = [runs EXCEPT ![r] = @ + 1]
    /\ warned' = [warned EXCEPT ![r] = UnexpectedContentType(req[r].content_type)]
    /\ LET c == ContentTypeCheck(req[r].content_type)
       IN  IF c.raised
           THEN /\ pc' = [pc EXCEPT ![r] = "responded"]
                /\ resp' = [resp EXCEPT ![r] = HttpError(c.exc)]
           ELSE /\ pc' = [pc EXCEPT ![r] = "reading"]
                /\ UNCHANGED resp
    /\ UNCHANGED <<phase, env, GOOGLE_SPEECH_RECOGNIZER_NAME, TRANSCRIPTION_API_KEY,
                   speech_client, req, audio_content, calls, reply, fault, closes, consulted, loop>>

\* The try block leaves with outcome `out` before recognize was called.
LeaveTry(r, out) ==
    /\ resp' = [resp EXCEPT ![r] = HandlerResponse(out)]
    /\ fault' = [fault EXCEPT ![r] = out.exc]
    /\ pc' = [pc EXCEPT ![r] = AfterTry(HandlerResponse(out))]

\* process_transcription from the return of read() to the recognize call
\* (transcribe_audio_v2 is called synchronously) or to the finally clause.
ReadDone(r) ==
    /\ loop = 0
    /\ pc[r] = "reading"
    /\ \E rd \in ReadOutcomes(Get(req[r].audio)), build \in BuildOutcomes :
         /\ read_out' = [read_out EXCEPT ![r] = Some(rd)]
         /\ IF rd.raised
            THEN LeaveTry(r, rd) /\ UNCHANGED <<audio_content, calls, loop, build_out, sent>>
            ELSE /\ audio_content' = [audio_content EXCEPT ![r] = Some(rd.value)]
                 /\ IF EmptyUpload(rd.value)
                    THEN LeaveTry(r, Raise(HTTPException(400, "Audio file is empty.", "")))
                         /\ UNCHANGED <<calls, loop, build_out, sent>>
                    ELSE LET h == TranscribeHead(speech_client, build)
                         IN  /\ build_out' = [build_out EXCEPT ![r] =
                                     IF ClientGuard(speech_client).raised
                                     THEN Nothing ELSE Some(build)]
                             /\ IF h.raised
                                THEN LeaveTry(r, h) /\ UNCHANGED <<calls, loop, sent>>
                                ELSE /\ calls' = [calls EXCEPT ![r] = @ + 1]
                                     /\ sent' = [sent EXCEPT ![r] = Append(@,
                                            RecognizeRequest(Get(GOOGLE_SPEECH_RECOGNIZER_NAME),
                                                             rd.value))]
                                     /\ loop' = r
                                     /\ pc' = [pc EXCEPT ![r] = "recognizing"]
                                     /\ UNCHANGED <<resp, fault>>
    /\ UNCHANGED <<phase, env, GOOGLE_SPEECH_RECOGNIZER_NAME, TRANSCRIPTION_API_KEY,
                   speech_client, req, runs, reply, closes, warned>>

\* speech_client.recognize returns or raises `out`; transcribe_audio_v2 finishes and
\* the handler reaches its finally clause. The event loop was held throughout.
RecognizeReturn(r, outcomes) ==
    /\ pc[r] = "recognizing"
    /\ loop = r
    /\ \E out \in outcomes :
         /\ reply' = [reply EXCEPT ![r] = out]
         /\ LeaveTry(r, TranscribeTail(out))
    /\ loop' = 0
    /\ UNCHANGED <<phase, env, GOOGLE_SPEECH_RECOGNIZER_NAME, TRANSCRIPTION_API_KEY,
                   speech_client, req, audio_content, runs, calls, closes, warned, consulted>>

\* finally: `await audio_file.close()`, then the response leaves.
CloseUpload(r) ==
    /\ loop = 0
    /\ pc[r] = "closing"
    /\ closes' = [closes EXCEPT ![r] = @ + 1]
    /\ pc' = [pc EXCEPT ![r] = "responded"]
    /\ UNCHANGED <<phase, env, GOOGLE_SPEECH_RECOGNIZER_NAME, TRANSCRIPTION_API_KEY,
                   speech_client, req, audio_content, resp, runs, calls, reply, fault, warned, consulted, loop>>

\* The steps the server takes for request r.
ServerStep(r) ==
    \/ SolveDependencies(r)
    \/ Health(r)
    \/ RejectBody(r)
    \/ EnterHandler(r)
    \/ ReadDone(r)
    \/ RecognizeReturn(r, SampleOutcomes)
    \/ CloseUpload(r)

Next ==
    \/ LoadModules
    \/ \E r \in Requests : Receive(r)
    \/ \E r \in Requests : ServerStep(r)

Spec == Init /\ [][Next]_vars

----------------------------------------------------------------------------
(* The provider's answers explored within the bounds: the server holds one *)
(* authenticated request inside recognize, and recognize returns any       *)
(* response of BoundedResponses.                                           *)

InitTranscript ==
    /\ phase = "serving"
    /\ env = [GOOGLE_SPEECH_RECOGNIZER_NAME |-> Some(RecognizerName),
              TRANSCRIPTION_API_KEY |-> Some(<<97, 98>>)]
    /\ GOOGLE_SPEECH_RECOGNIZER_NAME = Some(RecognizerName)
    /\ TRANSCRIPTION_API_KEY = Some(<<97, 98>>)
    /\ speech_client = Some("SpeechClient")
    /\ \E ct \in ContentTypes :
         /\ req = [r \in Requests |->
                     IF r = 1
                     THEN [path |-> "/transcribe", header |-> Some(<<97, 98>>),
                           audio |-> Some(<<0>>), content_type |-> ct]
                     ELSE NoRequest]
         /\ warned = [r \in Requests |-> r = 1 /\ UnexpectedContentType(ct)]
    /\ pc = [r \in Requests |-> IF r = 1 THEN "recognizing" ELSE "new"]
    /\ resp = [r \in Requests |-> NoResponse]
    /\ runs = [r \in Requests |-> IF r = 1 THEN 1 ELSE 0]
    /\ calls = [r \in Requests |-> IF r = 1 THEN 1 ELSE 0]
    /\ reply = [r \in Requests |-> NoReply]
    /\ audio_content = [r \in Requests |-> IF r = 1 THEN Some(<<0>>) ELSE Nothing]
    /\ fault = [r \in Requests |-> NoExc]
    /\ closes = [r \in Requests |-> 0]
    /\ read_out = [r \in Requests |-> IF r = 1 THEN Some(Return(<<0>>)) ELSE Nothing]
    /\ build_out = [r \in Requests |->
                      IF r = 1 THEN Some([raised |-> FALSE, at |-> "", exc |-> NoExc])
                      ELSE Nothing]
    /\ sent = [r \in Requests |->
                 IF r = 1 THEN <<RecognizeRequest(RecognizerName, <<0>>)>> ELSE << >>]
    /\ loop = 1

NextTranscript ==
    \/ \E r \in Requests : RecognizeReturn(r, BoundedOutcomes)
    \/ \E r \in Requests : CloseUpload(r)

SpecTranscript == InitTranscript /\ [][NextTranscript]_vars

----------------------------------------------------------------------------
(* Properties *)

Done(r) == pc[r] = "responded"
IsTranscribe(r) == req[r].path = "/transcribe"
IsHealth(r) == req[r].path = "/health"
Sent(r) == pc[r] # "new"

\* The validator lets request r through.
KeyAccepted(r) ==
    /\ Sent(r)
    /\ ~validate_api_key(req[r].header, Get(TRANSCRIPTION_API_KEY)).raised

\* read() returned a non-empty upload for request r.
ReadNonEmpty(r) == ~IsNone(audio_content[r]) /\ Len(Get(audio_content[r])) > 0

\* recognize was called for request r and has returned a response.
Answered(r) == calls[r] = 1 /\ reply[r] # NoReply /\ ~reply[r].raised

\* recognize was called for request r and has raised.
CallRaised(r) == calls[r] = 1 /\ reply[r] # NoReply /\ reply[r].raised

WhitespaceOnly(text) == \A k \in 1..Len(text) : text[k] = 32

\* The first alternatives of results that all have one.
TopTexts(results) == [i \in 1..Len(results) |-> results[i][1]]

\* texts[1] ' ' texts[2] ' ' ... ' ' texts[n]
RECURSIVE SpaceJoined(_, _)
SpaceJoined(texts, n) ==
    IF n = 0 THEN << >>
    ELSE IF n = 1 THEN texts[1]
    ELSE SpaceJoined(texts, n - 1) \o <<32>> \o texts[n]

\* t is s without its leading and trailing spaces.
IsTrimOf(t, s) ==
    /\ Len(t) > 0 => t[1] # 32 /\ t[Len(t)] # 32
    /\ \E i \in 0..Len(s) :
         /\ i + Len(t) <= Len(s)
         /\ SubSeq(s, i + 1, i + Len(t)) = t
         /\ \A k \in 1..Len(s) : (k <= i \/ k > i + Len(t)) => s[k] = 32

\* C1: a POST /transcribe request whose X-API-Key header is present and differs
\* from the configured secret is answered 401, and neither process_transcription
\* nor the provider runs for it.
C1_WrongKeyIs401 ==
    \A r \in Requests :
        (Done(r) /\ IsTranscribe(r) /\ ~IsNone(req[r].header)
            /\ Get(req[r].header) # Get(TRANSCRIPTION_API_KEY))
        => (resp[r].status = 401 /\ runs[r] = 0 /\ calls[r] = 0)

\* C2 as claimed: a request with the correct key whose upload was read non-empty is
\* answered 200 with a transcript, whatever the client state and the provider outcome.
C2_Always200 ==
    \A r \in Requests :
        (Done(r) /\ IsTranscribe(r) /\ KeyAccepted(r) /\ ReadNonEmpty(r))
        => (resp[r].status = 200 /\ resp[r].kind = "transcript")

\* C2 as amended: a request that passes key validation and whose upload was read
\* non-empty is answered 200 with a transcript exactly when the client is initialized,
\* the request was built and recognize returned without raising; otherwise 500.
C2_200IffProviderAnswered ==
    \A r \in Requests :
        (Done(r) /\ IsTranscribe(r) /\ KeyAccepted(r) /\ ReadNonEmpty(r))
        => /\ Answered(r) => (resp[r].status = 200 /\ resp[r].kind = "transcript"
                               /\ ~IsNone(speech_client) /\ fault[r] = NoExc)
           /\ ~Answered(r) => (resp[r].status = 500 /\ resp[r].kind = "detail")

C2_Witness ==
    \E r1, r2 \in Requests :
        /\ Done(r1) /\ KeyAccepted(r1) /\ ReadNonEmpty(r1) /\ resp[r1].status = 200
        /\ Done(r2) /\ KeyAccepted(r2) /\ ReadNonEmpty(r2) /\ resp[r2].status = 500
        /\ CallRaised(r2)

\* C3: while one request is inside the provider's recognize call, the server can take
\* a step for any other request that is waiting for one.
C3_OthersNotBlocked ==
    \A r1, r2 \in Requests :
        (r1 # r2 /\ pc[r1] = "recognizing" /\ pc[r2] \in {"received", "authenticated", "reading", "closing"})
        => ENABLED ServerStep(r2)

\* C4: once process_transcription has run to its response, whatever the exit path,
\* audio_file.close() was awaited exactly once; it is never awaited twice.
C4_ClosedExactlyOnce ==
    \A r \in Requests :
        /\ closes[r] <= 1
        /\ (Done(r) /\ runs[r] > 0) => closes[r] = 1

C4_Witness ==
    \E r1, r2 \in Requests :
        /\ Done(r1) /\ runs[r1] = 1 /\ closes[r1] = 1 /\ resp[r1].status = 400
        /\ Done(r2) /\ runs[r2] = 1 /\ closes[r2] = 1 /\ resp[r2].status = 500
        /\ fault[r2].cls = "OSError"

\* C5: a POST /transcribe request without the X-API-Key header is answered 401
\* whatever its body, and neither process_transcription nor the provider runs for it.
C5_MissingKeyIs401 ==
    \A r \in Requests :
        (Sent(r) /\ IsTranscribe(r) /\ IsNone(req[r].header))
        => /\ runs[r] = 0 /\ calls[r] = 0
           /\ Done(r) => resp[r].status = 401

C5_Witness ==
    \E r1, r2 \in Requests :
        /\ Done(r1) /\ IsTranscribe(r1) /\ IsNone(req[r1].header)
        /\ req[r1].audio = Some(<<0>>) /\ resp[r1].status = 401
        /\ Done(r2) /\ IsTranscribe(r2) /\ IsNone(req[r2].header)
        /\ IsNone(req[r2].audio) /\ resp[r2].status = 401

\* C6: a request with a valid key whose upload reads as zero bytes is answered 400
\* and recognize is never called for it, whatever the client state and content type.
C6_EmptyUploadIs400 ==
    \A r \in Requests :
        (IsTranscribe(r) /\ KeyAccepted(r) /\ audio_content[r] = Some(<< >>))
        => /\ calls[r] = 0
           /\ Done(r) => (resp[r].status = 400 /\ resp[r].detail = <<"Audio file is empty.", "">>)

C6_Witness ==
    \E r \in Requests :
        /\ Done(r) /\ KeyAccepted(r) /\ audio_content[r] = Some(<< >>)
        /\ IsNone(speech_client) /\ req[r].content_type = Some(<<"text", "plain">>)
        /\ resp[r].status = 400

\* C7: when recognize raises NotFound the response is 500 with the recognizer
\* configuration message, when it raises another GoogleAPICallError the response is
\* 500 with the Google API error message, each carrying the provider's message.
C7_ProviderErrorsClassified ==
    \A r \in Requests :
        (Done(r) /\ CallRaised(r))
        => LET e == reply[r].exc
           IN  /\ IsInstance(e.cls, "NotFound") =>
                     resp[r] = Response(500, "detail",
                         <<"Transcription recognizer configuration error: ", e.message>>, << >>)
               /\ (IsInstance(e.cls, "GoogleAPICallError") /\ ~IsInstance(e.cls, "NotFound")) =>
                     resp[r] = Response(500, "detail",
                         <<"Transcription failed due to Google API error: ", e.message>>, << >>)

C7_Witness ==
    \E r1, r2 \in Requests :
        /\ Done(r1) /\ CallRaised(r1) /\ reply[r1].exc.cls = "NotFound"
        /\ Done(r2) /\ CallRaised(r2) /\ reply[r2].exc.cls = "ServiceUnavailable"

\* C8: when recognize returns results that each have an alternative, the transcript
\* is the first alternatives in result order, joined by one space, then trimmed.
C8_TranscriptIsTrimmedJoin ==
    \A r \in Requests :
        (Done(r) /\ Answered(r) /\ ~IsNone(reply[r].value)
            /\ \A i \in 1..Len(Get(reply[r].value)) : Len(Get(reply[r].value)[i]) > 0)
        => LET results == Get(reply[r].value)
           IN  /\ resp[r].kind = "transcript"
               /\ IsTrimOf(resp[r].transcript, SpaceJoined(TopTexts(results), Len(results)))

C8_Witness ==
    \E r \in Requests :
        /\ Done(r) /\ Answered(r)
        /\ reply[r].value = Some(<< << <<97>>, <<32, 98>> >>, << <<32, 98>> >> >>)
        /\ resp[r].transcript = <<97, 32, 32, 98>>

\* C9: when recognize returns no results, or results whose first alternatives are all
\* empty or blank, the response is 200 with the empty transcript.
C9_NoSpeechIs200Empty ==
    \A r \in Requests :
        (Done(r) /\ Answered(r)
            /\ (IsNone(reply[r].value)
                 \/ \A i \in 1..Len(Get(reply[r].value)) :
                       LET result == Get(reply[r].value)[i]
                       IN  Len(result) = 0 \/ WhitespaceOnly(result[1])))
        => resp[r] = Response(200, "transcript", <<"", "">>, << >>)

C9_Witness ==
    \E r1, r2 \in Requests :
        /\ Done(r1) /\ Answered(r1) /\ reply[r1].value = Some(<< >>)
        /\ resp[r1].status = 200
        /\ Done(r2) /\ Answered(r2) /\ reply[r2].value = Some(<< << <<32>> >>, << << >> >> >>)
        /\ resp[r2].status = 200

\* C10: GET /health is answered 200 {"status": "ok"} whatever the X-API-Key header
\* and whether or not the provider client was initialized.
C10_HealthAlwaysOk ==
    \A r \in Requests :
        (Done(r) /\ IsHealth(r))
        => (resp[r].status = 200 /\ resp[r].kind = "health" /\ resp[r].detail = <<"ok", "">>)

C10_Witness ==
    \E r1, r2 \in Requests :
        /\ Done(r1) /\ IsHealth(r1) /\ IsNone(req[r1].header)
        /\ Done(r2) /\ IsHealth(r2) /\ req[r2].header = Some(<<98, 98>>)
        /\ IsNone(speech_client)
        /\ resp[r1].status = 200 /\ resp[r2].status = 200

\* C11: when GOOGLE_SPEECH_RECOGNIZER_NAME or TRANSCRIPTION_API_KEY is absent from the
\* environment the process never serves: no request is ever received or answered, and
\* whenever the process serves both values are resolved to the environment's values.
C11_NoServingWithoutConfig ==
    /\ (IsNone(env.GOOGLE_SPEECH_RECOGNIZER_NAME) \/ IsNone(env.TRANSCRIPTION_API_KEY))
        => (phase # "serving" /\ \A r \in Requests : pc[r] = "new" /\ resp[r] = NoResponse)
    /\ (phase = "serving" \/ \E r \in Requests : Sent(r))
        => /\ GOOGLE_SPEECH_RECOGNIZER_NAME = env.GOOGLE_SPEECH_RECOGNIZER_NAME
           /\ TRANSCRIPTION_API_KEY = env.TRANSCRIPTION_API_KEY
           /\ ~IsNone(GOOGLE_SPEECH_RECOGNIZER_NAME) /\ ~IsNone(TRANSCRIPTION_API_KEY)

C11_Witness ==
    /\ phase = "crashed"
    /\ ~IsNone(env.GOOGLE_SPEECH_RECOGNIZER_NAME)
    /\ IsNone(env.TRANSCRIPTION_API_KEY)

\* The exception that left the try block of request r unclassified: raised neither by
\* the handler nor by transcribe_audio_v2 as an HTTPException.
Unclassified(r) == fault[r] # NoExc /\ ~IsInstance(fault[r].cls, "HTTPException")

\* C12: an unclassified fault inside process_transcription is answered 500 with a
\* generic detail: the same for every such fault, without the text of the exception.
C12_GenericDetail ==
    /\ \A r \in Requests :
          (Done(r) /\ Unclassified(r))
          => (resp[r].status = 500 /\ resp[r].detail[2] # fault[r].message)
    /\ \A r1, r2 \in Requests :
          (Done(r1) /\ Unclassified(r1) /\ Done(r2) /\ Unclassified(r2))
          => resp[r1].detail = resp[r2].detail

\* The response of request r is decided and is an error.
Failed(r) == resp[r].status >= 400

\* C13: recognize is called only for a request whose key the validator accepted and
\* whose upload was read non-empty; a request moves received -> authenticated ->
\* reading -> recognizing and never skips a stage, and a failed request makes no call.
C13_CallOnlyAfterAuthAndRead ==
    /\ [](\A r \in Requests :
            (calls[r] > 0 \/ pc[r] = "recognizing")
            => (KeyAccepted(r) /\ runs[r] = 1 /\ ReadNonEmpty(r)))
    /\ [][\A r \in Requests :
            /\ (pc[r] # "recognizing" /\ pc'[r] = "recognizing") => pc[r] = "reading"
            /\ (pc[r] # "reading" /\ pc'[r] = "reading") => pc[r] = "authenticated"
            /\ (pc[r] # "authenticated" /\ pc'[r] = "authenticated") => pc[r] = "received"
            /\ Failed(r) => (calls'[r] = calls[r] /\ pc'[r] # "recognizing")]_vars

C13_Witness ==
    \E r1, r2 \in Requests :
        /\ pc[r1] = "recognizing" /\ KeyAccepted(r1) /\ ReadNonEmpty(r1)
        /\ Done(r2) /\ IsTranscribe(r2) /\ resp[r2].status = 401 /\ calls[r2] = 0

C15_SingleShot ==
    \A r \in Requests :
        /\ calls[r] <= 1
        /\ Len(sent[r]) = calls[r]
        /\ calls[r] = 1 => sent[r][1].content = Get(req[r].audio)
        /\ CallRaised(r) => (pc[r] \in {"closing", "responded"} /\ resp[r].status = 500)

C15_Witness ==
    \E r \in Requests :
        /\ Done(r) /\ CallRaised(r) /\ calls[r] = 1
        /\ sent[r] = <<RecognizeRequest(RecognizerName, <<0, 1>>)>>
        /\ resp[r].status = 500

\* The environment did the same for r1 and r2 wherever both consulted it.
EnvAgree(r1, r2) ==
    /\ (~IsNone(read_out[r1]) /\ ~IsNone(read_out[r2])) => read_out[r1] = read_out[r2]
    /\ (~IsNone(build_out[r1]) /\ ~IsNone(build_out[r2])) => build_out[r1] = build_out[r2]
    /\ (reply[r1] # NoReply /\ reply[r2] # NoReply) => reply[r1] = reply[r2]

\* C16: two POST /transcribe requests that differ only in the declared content type
\* get the same response, and no response has status 415.
C16_ContentTypeIgnored ==
    /\ \A r \in Requests : resp[r].status # 415
    /\ \A r1, r2 \in Requests :
          (Done(r1) /\ Done(r2) /\ IsTranscribe(r1) /\ IsTranscribe(r2)
              /\ req[r1].header = req[r2].header /\ req[r1].audio = req[r2].audio
              /\ EnvAgree(r1, r2))
          => resp[r1] = resp[r2]

C16_Witness ==
    \E r1, r2 \in Requests :
        /\ Done(r1) /\ Done(r2) /\ EnvAgree(r1, r2)
        /\ req[r1].header = req[r2].header /\ req[r1].audio = req[r2].audio
        /\ req[r1].content_type = Some(<<"text", "plain">>) /\ warned[r1]
        /\ req[r2].content_type = Some(<<"audio", "mp4">>) /\ ~warned[r2]
        /\ resp[r1].status = 200 /\ resp[r2].status = 200

\* The first alternatives of the first n results, those without alternatives left out.
RECURSIVE TopOfNonEmpty(_, _)
TopOfNonEmpty(results, n) ==
    IF n = 0 THEN << >>
    ELSE IF Len(results[n]) = 0 THEN TopOfNonEmpty(results, n - 1)
    ELSE Append(TopOfNonEmpty(results, n - 1), results[n][1])

====
